---- MODULE Spec2Model ----
(***************************************************************************)
(* Token lifecycle and resilient downstream call of the Agentforce proxy   *)
(* (src/api/check-agentforce.ts): fetchSfToken, getSfToken,                *)
(* callApexWithAutoRefresh and handler, with the module-level slot         *)
(* memToken and the optional Redis store.  A step of an invocation runs    *)
(* from one await to the next; the collaborators (token endpoint, Apex     *)
(* REST endpoint, Redis) answer nondeterministically.                      *)
(***************************************************************************)
EXTENDS Integers, Sequences, FiniteSets, TLC

\* ------------------------------------------------------------------ bounds
\* Successful token responses the authority gives in one process lifetime.
MaxAcq == 2

\* Invocations of handler; Spec runs them one after the other in process 1.
Procs == {1, 2}

\* ---------------------------------------------------------------- JS values
\* The value null of `TokenCache | null`.
Null == [null |-> TRUE]

\* The value undefined of a missing property (token strings are numbered >= 0).
Undefined == -1

\* o?.k on a token record: undefined on null and on a missing key.
Field(o, k) == IF o = Null THEN Undefined
               ELSE IF k \in DOMAIN o THEN o[k] ELSE Undefined

\* Truthiness of `x?.access_token` (lines 87, 92): a present token string.
HasToken(o) == Field(o, "access_token") # Undefined

\* JSON.stringify drops the keys whose value is undefined (line 32).
JsonStringify(val) == [k \in {x \in DOMAIN val : val[x] # Undefined} |-> val[k]]

\* resp.ok
Ok(status) == status >= 200 /\ status <= 299

\* resp.text().catch(() => '') (lines 72, 146)
TextOrEmpty(r) == IF r.readable THEN r.text ELSE ""

\* Parsed JSON values (the result of resp.json()).
JBool(b) == [ty |-> "boolean", b |-> b]
JStr(s) == [ty |-> "string", s |-> s]
JNull == [ty |-> "null"]
JUndefined == [ty |-> "undefined"]
JObject(props) == [ty |-> "object", props |-> props]

\* ------------------------------------------------------- token endpoint
\* Bodies of the token endpoint's error responses.
TokenErrorTexts ==
    { "{\"error\":\"invalid_grant\"}",
      "LOGIN RATE EXCEEDED",
      "{\"error\":\"invalid_client_id\"}",
      "request not supported on this domain",
      "" }

\* /invalid_grant|login rate exceeded/i.test(lastTxt) (line 74)
TransientSignature(txt) ==
    txt \in { "{\"error\":\"invalid_grant\"}", "LOGIN RATE EXCEEDED" }

TokenErrorStatuses == {400, 401, 403, 429, 500}

\* The parsed body of a 2xx token response: an object (with or without
\* access_token), the JSON value null, or a body that is no JSON.
JsSyntaxError == [ty |-> "SyntaxError"]
NoProps == [k \in {} |-> 0]

\* The responses the token endpoint can give when n tokens were issued.
TokenOkResponses(n) ==
    { [status |-> 200, readable |-> TRUE, text |-> "json",
       js |-> JObject([access_token |-> n + 1, instance_url |-> n + 1])],
      [status |-> 200, readable |-> TRUE, text |-> "json",
       js |-> JObject(NoProps)] }

TokenBadOkResponses ==
    { [status |-> 200, readable |-> TRUE, text |-> "null", js |-> JNull],
      [status |-> 200, readable |-> TRUE, text |-> "<html>", js |-> JsSyntaxError] }

\* A non-2xx response; the read of its body can fail (readable = FALSE).
TokenErrorResponses ==
    [status : TokenErrorStatuses, readable : {TRUE}, text : TokenErrorTexts,
     js : {JsSyntaxError}]
    \cup [status : TokenErrorStatuses, readable : {FALSE},
          text : {"LOGIN RATE EXCEEDED"}, js : {JsSyntaxError}]

NoResponse == [status |-> 0, readable |-> TRUE, text |-> "", js |-> JsSyntaxError]

\* js.access_token, js.instance_url on the parsed object (lines 62-63)
JsProp(js, k) == IF k \in DOMAIN js.props THEN js.props[k] ELSE Undefined

\* attempt < 3 (line 52)
MaxAttempts == 3

\* A loop test that is off by one.
LoopGoesOnOffByOne(attempt) == attempt <= MaxAttempts

\* The loop test of line 52.
LoopGoesOn(attempt) == attempt < MaxAttempts

\* A retry test that looks at the body only.
IsTransientAnyStatus(status, txt) == TransientSignature(txt)

\* The retry test of line 74.
IsTransient(status, txt) == status = 400 /\ TransientSignature(txt)

\* An error that carries no response body.
TokenErrorBlank(lastTxt) == [name |-> "Error", message |-> "token_error", txt |-> ""]

\* new Error(`token_error ${lastTxt}`) (line 80)
TokenError(lastTxt) == [name |-> "Error", message |-> "token_error", txt |-> lastTxt]

\* What fetch and resp.json() throw; none of them is a token_error.
FetchFailed == [name |-> "TypeError", message |-> "fetch failed", txt |-> ""]
JsonFailed == [name |-> "SyntaxError", message |-> "Unexpected token", txt |-> ""]
NullDeref == [name |-> "TypeError", message |-> "Cannot read properties of null", txt |-> ""]
InOnPrimitive == [name |-> "TypeError", message |-> "Cannot use 'in' operator", txt |-> ""]

\* ------------------------------------------------------ Apex REST endpoint
ApexStatuses == {200, 204, 401, 403, 500}

\* Bodies the Apex REST endpoint can answer with.
ApexTexts ==
    { "{\"isAgentforceUser\":true,\"userId\":\"u1\"}",
      "{\"isAgentforceUser\":false,\"userId\":null}",
      "{\"userId\":\"u1\"}",
      "{\"isAgentforceUser\":\"true\"}",
      "[{\"errorCode\":\"INVALID_SESSION_ID\"}]",
      "null",
      "true",
      "" }

FlagTrue == "{\"isAgentforceUser\":true,\"userId\":\"u1\"}"

\* The read of a response's body can fail (readable = FALSE).
ApexResponses ==
    [status : ApexStatuses, readable : {TRUE}, text : ApexTexts]
    \cup [status : ApexStatuses, readable : {FALSE}, text : {"null"}]

NoApexResponse == [status |-> 0, readable |-> TRUE, text |-> ""]

\* JSON.parse of each body of ApexTexts (resp.json(), line 150).
ParseJson(text) ==
    CASE text = "{\"isAgentforceUser\":true,\"userId\":\"u1\"}" ->
           JObject([isAgentforceUser |-> JBool(TRUE), userId |-> JStr("u1")])
      [] text = "{\"isAgentforceUser\":false,\"userId\":null}" ->
           JObject([isAgentforceUser |-> JBool(FALSE), userId |-> JNull])
      [] text = "{\"userId\":\"u1\"}" ->
           JObject([userId |-> JStr("u1")])
      [] text = "{\"isAgentforceUser\":\"true\"}" ->
           JObject([isAgentforceUser |-> JStr("true")])
      [] text = "[{\"errorCode\":\"INVALID_SESSION_ID\"}]" ->
           JObject([length |-> JStr("1")])
      [] text = "null" -> JNull
      [] text = "true" -> JBool(TRUE)
      [] OTHER -> JsSyntaxError

\* data?.k : undefined on null, on a primitive and on a missing key.
Prop(data, k) ==
    IF data.ty = "object" /\ k \in DOMAIN data.props THEN data.props[k]
    ELSE JUndefined

\* JS truthiness of a parsed body.
Truthy(data) ==
    CASE data.ty = "null" -> FALSE
      [] data.ty = "undefined" -> FALSE
      [] data.ty = "boolean" -> data.b
      [] data.ty = "string" -> data.s # ""
      [] OTHER -> TRUE

\* x ?? null
OrNull(v) == IF v.ty \in {"null", "undefined"} THEN JNull ELSE v

\* typeof data?.isAgentforceUser === 'boolean' ? data.isAgentforceUser : false
\* (line 151)
Allowed(data) ==
    IF Prop(data, "isAgentforceUser").ty = "boolean"
    THEN Prop(data, "isAgentforceUser").b
    ELSE FALSE

\* The responses of handler (res.status(code).json(json)).
Http(code, json) == [code |-> code, json |-> json]
NoResult == Http(0, [none |-> TRUE])
OptionsResult == Http(200, [end |-> TRUE])
MissingId == Http(400, [error |-> "missing_integrationId"])

\* catch (err) of line 155-156
ServerError(err) == Http(500, [error |-> "server_error", detail |-> err])

\* line 145-148
ApexError(resp) ==
    Http(502, [error |-> "apex_error", status |-> resp.status,
               detail |-> TextOrEmpty(resp)])

\* The interpretation of the first variant of the handler
\* (src/unnamed/part_000, lines 47-54): never an error, the status passed on.
RespondLegacy(resp) ==
    Http(200, [allowed |-> Ok(resp.status) /\ TextOrEmpty(resp) = "true",
               userId |-> JNull, status |-> resp.status])

\* handler, lines 145-157, on the response callApexWithAutoRefresh returned.
Respond(resp) ==
    IF ~Ok(resp.status) THEN ApexError(resp)
    ELSE IF ~resp.readable THEN ServerError(FetchFailed)
    ELSE LET data == ParseJson(resp.text) IN
         IF data.ty = "SyntaxError" THEN ServerError(JsonFailed)
         ELSE IF Truthy(data) /\ data.ty # "object" THEN ServerError(InOnPrimitive)
         ELSE Http(200,
                [allowed |-> Allowed(data),
                 userId |-> IF Truthy(data) /\ "userId" \in DOMAIN data.props
                            THEN OrNull(data.props.userId) ELSE JNull,
                 status |-> resp.status])

\* A retry test that also takes 403 for an invalid session.
IsInvalidSessionOrForbidden(status) == status \in {401, 403}

\* resp.status === 401 (line 111)
IsInvalidSession(status) == status = 401

\* A retry test that is repeated after the second GET (a loop instead of an if).
RetryOn401Again(phase, status) == IsInvalidSession(status)

\* The `if` of line 111 is reached once, after the first GET only.
RetryOn401(phase, status) == phase = "first" /\ IsInvalidSession(status)

\* req.method and String(req.query.integrationId || '').trim()
Methods == {"GET", "OPTIONS"}
IntegrationIds == {"", "003A"}

\* ------------------------------------------------------------------- state
VARIABLES
    memToken,   \* let memToken: TokenCache | null (line 14)
    redis,      \* the value stored under TOKEN_KEY in Redis, or Null
    redisUrl,   \* whether process.env.REDIS_URL is set
    issued,     \* number of tokens the authority has issued to this process
    now,        \* number of Date.now() readings taken (the clock)
    inv,        \* per invocation: the await it is at and its local variables
    h,          \* per invocation: what it has done so far (history)
    lastForced  \* record of the latest successful acquisition if it was the
                \* forced refresh of line 114, else Null (history)

vars == <<memToken, redis, redisUrl, issued, now, inv, h, lastForced>>

\* The record Redis may hold from before this process started.
OldRecord == [access_token |-> 0, instance_url |-> 0, fetched_at |-> 0]

IdleFrame ==
    [pc |-> "idle", phase |-> "none", attempt |-> 0, lastTxt |-> "",
     fcaller |-> "none", token |-> Null, bearer |-> Undefined,
     result |-> NoResult]

NoHistory ==
    [gets |-> 0, st1 |-> 0, forced |-> 0, forcedOk |-> FALSE, acq |-> 0,
     posts |-> 0, resps |-> 0, backoffs |-> 0, allPosts |-> 0, reads |-> 0,
     src |-> "none", memAtGet |-> Null, rd |-> Null, lastResp |-> NoResponse,
     final |-> NoApexResponse, bearer1 |-> Undefined, acq1 |-> 0,
     ro |-> "none", wr |-> "none"]

Init ==
    /\ memToken = Null
    /\ redisUrl \in BOOLEAN
    /\ redis \in (IF redisUrl THEN {Null, OldRecord} ELSE {Null})
    /\ issued = 0
    /\ now = 1
    /\ inv = [p \in Procs |-> IdleFrame]
    /\ h = [p \in Procs |-> NoHistory]
    /\ lastForced = Null

\* The frame of an invocation that has responded.
Done(result) == [IdleFrame EXCEPT !.pc = "done", !.result = result]

\* A getSfToken that never looks at the slot.
TokenSourceNoMem(fromRedis, mem) ==
    IF HasToken(fromRedis) THEN "redis" ELSE "fetch"

\* A getSfToken that prefers the slot to what readRedis returned.
TokenSourceMemFirst(fromRedis, mem) ==
    IF HasToken(mem) THEN "mem"
    ELSE IF HasToken(fromRedis) THEN "redis"
    ELSE "fetch"

\* getSfToken, lines 87-94: where the token comes from, given what readRedis
\* returned and the slot.
TokenSource(fromRedis, mem) ==
    IF HasToken(fromRedis) THEN "redis"
    ELSE IF HasToken(mem) THEN "mem"
    ELSE "fetch"

\* A read-through that updates the slot's record where there is one
\* (Object.assign on the shared record) instead of replacing it.
ReadThroughMerge(fromRedis, mem) ==
    IF mem = [null |-> TRUE]
    THEN fromRedis
    ELSE [fromRedis EXCEPT !.fetched_at = mem.fetched_at]

\* A getSfToken that returns the token read from Redis and leaves the slot.
ReadThroughSkipped(fromRedis, mem) == mem

\* getSfToken, line 88: memToken = fromRedis.
ReadThrough(fromRedis, mem) == fromRedis

\* A readRedis without the test of r.ok (line 21).
ReadRedisIgnoresStatus(outcome, stored) ==
    IF outcome \in {"value", "notOk"} THEN stored ELSE [null |-> TRUE]

\* readRedis, lines 18-24: the value it returns for each way the GET can end.
ReadOutcomes == {"throws", "notOk", "notJson", "envelope", "value"}
ReadRedis(outcome, stored) ==
    CASE outcome = "value" -> stored
      [] outcome = "envelope" -> [result |-> 0]
      [] OTHER -> Null

\* writeRedis, lines 27-34: the store after the POST, for each way it can end.
WriteOutcomes == {"stored", "lost"}
WriteRedis(outcome, stored, val) ==
    IF outcome = "stored" THEN JsonStringify(val) ELSE stored

\* The token record of lines 61-65.
TokenRecord(js, at) ==
    [access_token |-> JsProp(js, "access_token"),
     instance_url |-> JsProp(js, "instance_url"),
     fetched_at |-> at]

\* ----------------------------------------------------------------- actions
\* The frame and history of an invocation that issues the Apex GET with token t
\* (lines 103-109 and 116-122).
CallApex(f, t) == [f EXCEPT !.pc = "apexGet", !.bearer = t, !.token = Null,
                            !.attempt = 0, !.lastTxt = "", !.fcaller = "none"]
CallApexH(hp, t, src) ==
    [hp EXCEPT !.gets = @ + 1, !.src = src,
               !.bearer1 = IF hp.gets = 0 THEN t ELSE @,
               !.acq1 = IF hp.gets = 0 THEN hp.acq ELSE @]

\* Entering fetchSfToken (lines 51-53): the first POST is issued.
EnterFetch(f, caller) ==
    [f EXCEPT !.pc = "tokenPost", !.attempt = 0, !.lastTxt = "",
              !.fcaller = caller]
EnterFetchH(hp, caller) ==
    [hp EXCEPT !.acq = @ + 1, !.posts = 1, !.resps = 0, !.backoffs = 0,
               !.allPosts = @ + 1, !.lastResp = NoResponse,
               !.forced = IF caller = "callApex" THEN @ + 1 ELSE @]

\* Entering getSfToken (line 86): readRedis is awaited.
EnterGet(f) == [f EXCEPT !.pc = "readRedis", !.token = Null, !.attempt = 0,
                         !.lastTxt = "", !.fcaller = "none"]
EnterGetH(hp) ==
    [hp EXCEPT !.memAtGet = memToken, !.rd = Null, !.ro = "none",
               !.reads = IF redisUrl THEN @ + 1 ELSE @]

\* handler up to the first await (lines 127-143, 99-102, 86).
Start(p) ==
    /\ inv[p].pc \in {"idle", "done"}
    /\ \E method \in Methods, integrationId \in IntegrationIds :
         IF method = "OPTIONS"
         THEN /\ inv' = [inv EXCEPT ![p] = Done(OptionsResult)]
              /\ h' = [h EXCEPT ![p] = NoHistory]
         ELSE IF integrationId = ""
         THEN /\ inv' = [inv EXCEPT ![p] = Done(MissingId)]
              /\ h' = [h EXCEPT ![p] = NoHistory]
         ELSE /\ inv' = [inv EXCEPT ![p] = EnterGet([IdleFrame EXCEPT !.phase = "first"])]
              /\ h' = [h EXCEPT ![p] = EnterGetH(NoHistory)]
    /\ UNCHANGED <<memToken, redis, redisUrl, issued, now, lastForced>>

\* getSfToken after readRedis returned (lines 86-94).
ReadRedisReturn(p) ==
    /\ inv[p].pc = "readRedis"
    /\ \E outcome \in (IF redisUrl THEN ReadOutcomes ELSE {"unset"}) :
         LET fromRedis == ReadRedis(outcome, redis)
             src == TokenSource(fromRedis, memToken)
             hp == [h[p] EXCEPT !.rd = fromRedis, !.ro = outcome]
         IN CASE src = "redis" ->
                   /\ memToken' = ReadThrough(fromRedis, memToken)
                   /\ inv' = [inv EXCEPT ![p] = CallApex(@, fromRedis.access_token)]
                   /\ h' = [h EXCEPT ![p] = CallApexH(hp, fromRedis.access_token, src)]
              [] src = "mem" ->
                   /\ memToken' = memToken
                   /\ inv' = [inv EXCEPT ![p] = CallApex(@, memToken.access_token)]
                   /\ h' = [h EXCEPT ![p] = CallApexH(hp, memToken.access_token, src)]
              [] OTHER ->
                   /\ memToken' = memToken
                   /\ inv' = [inv EXCEPT ![p] = EnterFetch(@, "getSfToken")]
                   /\ h' = [h EXCEPT ![p] = EnterFetchH(hp, "getSfToken")]
    /\ UNCHANGED <<redis, redisUrl, issued, now, lastForced>>

\* The history after token response r arrived.
Answered(hp, r) ==
    [hp EXCEPT !.resps = @ + 1, !.lastResp = r]

\* The first variant of the handler (src/unnamed/part_000, lines 34-37)
\* answers a failed token request itself, with 502.
ThrowLegacy(err) ==
    Done(Http(502, [error |-> "token_error", detail |-> err.txt]))

\* A fetchSfToken that drops the cached record when the token request fails.
MemTokenClearedOnError(mem) == [null |-> TRUE]

\* fetchSfToken, lines 53-57 and 72-80: no path but the one through line 67
\* assigns memToken.
MemTokenOnError(mem) == mem

\* fetchSfToken throws err: callApexWithAutoRefresh and handler's try let it
\* through to catch (line 155).
Throw(err) == Done(ServerError(err))

\* fetchSfToken, lines 59-67: a 2xx response with a JSON object as body.
TokenPostOk(p) ==
    /\ inv[p].pc = "tokenPost"
    /\ now <= MaxAcq
    /\ \E r \in TokenOkResponses(issued) :
         LET token == TokenRecord(r.js, now) IN
         /\ memToken' = token
         /\ now' = now + 1
         /\ issued' = IF HasToken(token) THEN issued + 1 ELSE issued
         /\ inv' = [inv EXCEPT ![p] = [@ EXCEPT !.pc = "writeRedis", !.token = token]]
         /\ h' = [h EXCEPT ![p] =
                    [Answered(@, r) EXCEPT
                       !.forcedOk = IF inv[p].fcaller = "callApex" THEN TRUE ELSE @]]
         /\ lastForced' = IF inv[p].fcaller = "callApex" THEN token ELSE Null
    /\ UNCHANGED <<redis, redisUrl>>

\* fetchSfToken, lines 53 and 60-62: fetch rejects, or the 2xx body is no JSON
\* object (resp.json() rejects, or js is null and js.access_token throws).
TokenPostThrows(p) ==
    /\ inv[p].pc = "tokenPost"
    /\ \/ /\ inv' = [inv EXCEPT ![p] = Throw(FetchFailed)]
          /\ h' = h
       \/ \E r \in TokenBadOkResponses :
            /\ inv' = [inv EXCEPT ![p] =
                         Throw(IF r.js = JNull THEN NullDeref ELSE JsonFailed)]
            /\ h' = [h EXCEPT ![p] = Answered(@, r)]
    /\ memToken' = MemTokenOnError(memToken)
    /\ UNCHANGED <<redis, redisUrl, issued, now, lastForced>>

\* fetchSfToken, lines 72-80: a non-2xx response.
TokenPostRejected(p) ==
    /\ inv[p].pc = "tokenPost"
    /\ \E r \in TokenErrorResponses :
         LET lastTxt == TextOrEmpty(r) IN
         /\ inv' = [inv EXCEPT ![p] =
                      IF IsTransient(r.status, lastTxt)
                      THEN [@ EXCEPT !.pc = "backoff", !.lastTxt = lastTxt]
                      ELSE Throw(TokenError(lastTxt))]
         /\ h' = [h EXCEPT ![p] =
                    [Answered(@, r) EXCEPT
                       !.backoffs = IF IsTransient(r.status, lastTxt)
                                    THEN @ + 1 ELSE @]]
    /\ memToken' = MemTokenOnError(memToken)
    /\ UNCHANGED <<redis, redisUrl, issued, now, lastForced>>

\* fetchSfToken, lines 75-76, 52 and 80: the backoff sleep is over, attempt++,
\* then the next POST or the throw after the loop.
BackoffDone(p) ==
    /\ inv[p].pc = "backoff"
    /\ IF LoopGoesOn(inv[p].attempt + 1)
       THEN /\ inv' = [inv EXCEPT ![p] =
                         [@ EXCEPT !.pc = "tokenPost", !.attempt = @ + 1]]
            /\ h' = [h EXCEPT ![p] =
                       [@ EXCEPT !.posts = @ + 1, !.allPosts = @ + 1]]
       ELSE /\ inv' = [inv EXCEPT ![p] = Throw(TokenError(inv[p].lastTxt))]
            /\ h' = h
    /\ memToken' = MemTokenOnError(memToken)
    /\ UNCHANGED <<redis, redisUrl, issued, now, lastForced>>

\* fetchSfToken, lines 68-69, and its caller: getSfToken returns
\* t.access_token (line 95) to line 102, or line 114 goes on to getSfToken
\* (line 115).
WriteRedisReturn(p) ==
    /\ inv[p].pc = "writeRedis"
    /\ \E outcome \in (IF redisUrl THEN WriteOutcomes ELSE {"unset"}) :
         /\ redis' = WriteRedis(outcome, redis, inv[p].token)
         /\ IF inv[p].fcaller = "getSfToken"
            THEN /\ inv' = [inv EXCEPT ![p] = CallApex(@, inv[p].token.access_token)]
                 /\ h' = [h EXCEPT ![p] =
                            CallApexH([@ EXCEPT !.wr = outcome],
                                      inv[p].token.access_token, "fetch")]
            ELSE /\ inv' = [inv EXCEPT ![p] = EnterGet(@)]
                 /\ h' = [h EXCEPT ![p] = EnterGetH([@ EXCEPT !.wr = outcome])]
    /\ UNCHANGED <<memToken, redisUrl, issued, now, lastForced>>

\* callApexWithAutoRefresh, lines 103-111 and 116-124, then handler, lines
\* 145-154: the Apex GET is answered.
ApexReturn(p) ==
    /\ inv[p].pc = "apexGet"
    /\ \E resp \in ApexResponses :
         IF RetryOn401(inv[p].phase, resp.status)
         THEN /\ inv' = [inv EXCEPT ![p] = [@ EXCEPT !.pc = "sleep"]]
              /\ h' = [h EXCEPT ![p] = [@ EXCEPT !.st1 = resp.status]]
         ELSE /\ inv' = [inv EXCEPT ![p] = Done(Respond(resp))]
              /\ h' = [h EXCEPT ![p] =
                         [@ EXCEPT !.final = resp,
                                   !.st1 = IF @ = 0 THEN resp.status ELSE @]]
    /\ UNCHANGED <<memToken, redis, redisUrl, issued, now, lastForced>>

\* The Apex fetch rejects (network failure): handler's catch.
ApexFetchFails(p) ==
    /\ inv[p].pc = "apexGet"
    /\ inv' = [inv EXCEPT ![p] = Throw(FetchFailed)]
    /\ UNCHANGED <<memToken, redis, redisUrl, issued, now, h, lastForced>>

\* callApexWithAutoRefresh, lines 113-114: sleep(150) is over, fetchSfToken is
\* called.
SleepDone(p) ==
    /\ inv[p].pc = "sleep"
    /\ inv' = [inv EXCEPT ![p] = EnterFetch([@ EXCEPT !.phase = "retry"], "callApex")]
    /\ h' = [h EXCEPT ![p] = EnterFetchH(@, "callApex")]
    /\ UNCHANGED <<memToken, redis, redisUrl, issued, now, lastForced>>

\* The TTL of the Redis entry runs out (EX of line 32).
RedisExpire ==
    /\ redisUrl
    /\ redis # Null
    /\ redis' = Null
    /\ UNCHANGED <<memToken, redisUrl, issued, now, inv, h, lastForced>>

Step(p) ==
    \/ Start(p)
    \/ ReadRedisReturn(p)
    \/ TokenPostOk(p)
    \/ TokenPostThrows(p)
    \/ TokenPostRejected(p)
    \/ BackoffDone(p)
    \/ WriteRedisReturn(p)
    \/ ApexReturn(p)
    \/ ApexFetchFails(p)
    \/ SleepDone(p)

\* One invocation at a time, in process 1.
Next == Step(1) \/ RedisExpire

Spec == Init /\ [][Next]_vars

\* Every step of an invocation after its start: the return of an awaited
\* network call or timer (lines 19, 29, 53, 75, 103, 113, 118).
Resume(p) ==
    \/ ReadRedisReturn(p)
    \/ TokenPostOk(p)
    \/ TokenPostThrows(p)
    \/ TokenPostRejected(p)
    \/ BackoffDone(p)
    \/ WriteRedisReturn(p)
    \/ ApexReturn(p)
    \/ ApexFetchFails(p)
    \/ SleepDone(p)

\* The same program when every awaited call returns and every timer fires.
LiveSpec == Init /\ [][Next]_vars /\ WF_vars(Resume(1))

\* The inputs of the concurrent runs, read off the frame f and the history hp
\* an action leaves behind: a real invocation (GET with an integrationId);
\* Redis answers with its value or not at all; the token endpoint answers with
\* a token or, to process 1 only, with a transient 400; Apex answers 200 with
\* the flag or, to process 1 only, 401.
ConcInput(p, f, hp) ==
    /\ hp.ro \in {"none", "unset", "value", "throws"}
    /\ \/ hp.lastResp = NoResponse
       \/ /\ hp.lastResp.status = 200
          /\ hp.lastResp.js.ty = "object"
          /\ HasToken(TokenRecord(hp.lastResp.js, 0))
       \/ /\ p = 1
          /\ hp.lastResp.status = 400
          /\ hp.lastResp.readable
          /\ hp.lastResp.text = "LOGIN RATE EXCEEDED"
    /\ \/ hp.final = NoApexResponse
       \/ hp.final = [status |-> 200, readable |-> TRUE, text |-> FlagTrue]
    /\ hp.st1 \in (IF p = 1 THEN {0, 200, 401} ELSE {0, 200})
    /\ f.result.code \in {0, 200, 500}
    /\ f.result.code = 500 => hp.acq + hp.gets >= 1

\* One step of one of two invocations that run in the same process, each
\* started once: between two awaits an invocation runs alone, so every action
\* is atomic and the invocations interleave action by action.
ConcStep(p) ==
    \/ inv[p].pc = "idle" /\ Start(p) /\ ConcInput(p, inv'[p], h'[p])
    \/ ReadRedisReturn(p) /\ ConcInput(p, inv'[p], h'[p])
    \/ TokenPostOk(p) /\ ConcInput(p, inv'[p], h'[p])
    \/ TokenPostThrows(p) /\ ConcInput(p, inv'[p], h'[p])
    \/ TokenPostRejected(p) /\ ConcInput(p, inv'[p], h'[p])
    \/ BackoffDone(p)
    \/ WriteRedisReturn(p)
    \/ ApexReturn(p) /\ ConcInput(p, inv'[p], h'[p])
    \/ ApexFetchFails(p)
    \/ SleepDone(p)

NextConc == (\E p \in Procs : ConcStep(p)) \/ RedisExpire

\* Two invocations interleaved at their awaits.
SpecConc == Init /\ [][NextConc]_vars

\* ------------------------------------------------------------------ claims
AtApexGet(p) == inv[p].pc = "apexGet"
IsDone(p) == inv[p].pc = "done"

\* The invocation ended in catch with the error of line 80.
IsTokenError(p) ==
    /\ IsDone(p)
    /\ inv[p].result.code = 500
    /\ inv[p].result.json.detail.message = "token_error"

\* The body of a response as the claims speak of it: what was received.
Received(r) == IF r.readable THEN r.text ELSE ""


\* C1: one invocation issues the Apex GET at most twice; the second GET is
\* issued only after a first response with status 401 and a forced refresh
\* that succeeded; there is never a third GET.
C1_AtMostTwoGets ==
    \A p \in Procs :
      /\ h[p].gets <= 2
      /\ h[p].gets = 2 => h[p].st1 = 401 /\ h[p].forcedOk

\* Two 401 in a row: the invocation is over after the second GET.
C1_Witness ==
    \E p \in Procs :
      IsDone(p) /\ h[p].gets = 2 /\ h[p].final.status = 401

\* C2: 401 on the first GET and 200 with the flag true on the second: exactly
\* one forced refresh (fetchSfToken called from line 114), after the first
\* GET and before the second, and the result is allowed = true; a first
\* response other than 401 is followed by no forced refresh.  When the
\* refresh brought a token, it is the only fetchSfToken between the two GETs.
C2_OneForcedRefresh ==
    \A p \in Procs :
      /\ h[p].forced <= 1
      /\ h[p].forced = 1 => h[p].st1 = 401 /\ h[p].gets >= 1
      /\ h[p].gets = 2 => h[p].forced = 1
      /\ ( h[p].gets = 2 /\ HasToken(lastForced) ) => h[p].acq - h[p].acq1 = 1
      /\ h[p].st1 \notin {0, 401} => h[p].forced = 0 /\ h[p].gets = 1
      /\ ( /\ IsDone(p)
           /\ h[p].st1 = 401
           /\ h[p].final = [status |-> 200, readable |-> TRUE, text |-> FlagTrue] )
         => /\ h[p].forced = 1
            /\ h[p].gets = 2
            /\ inv[p].result.code = 200
            /\ inv[p].result.json.allowed = TRUE

C2_Witness ==
    \E p \in Procs :
      /\ IsDone(p)
      /\ h[p].st1 = 401
      /\ h[p].forced = 1
      /\ h[p].acq - h[p].acq1 = 1
      /\ h[p].final.status = 200
      /\ inv[p].result.code = 200
      /\ inv[p].result.json.allowed = TRUE

\* C3 (as claimed): allowed = true only for a final 2xx response whose flag is
\* the boolean true, and a final 2xx response with a JSON body whose flag is
\* missing or no boolean gives the normal result allowed = false, never an
\* error.
C3_DenyOnShapeDrift ==
    \A p \in Procs :
      IsDone(p) /\ h[p].final.status # 0 =>
        LET data == ParseJson(h[p].final.text)
            flagIsBoolean == Prop(data, "isAgentforceUser").ty = "boolean"
        IN /\ ( /\ inv[p].result.code = 200
                /\ inv[p].result.json.allowed = TRUE )
              => /\ Ok(h[p].final.status)
                 /\ flagIsBoolean
                 /\ Prop(data, "isAgentforceUser").b = TRUE
           /\ ( /\ Ok(h[p].final.status)
                /\ h[p].final.readable
                /\ data.ty # "SyntaxError"
                /\ ~flagIsBoolean )
              => /\ inv[p].result.code = 200
                 /\ inv[p].result.json.allowed = FALSE

\* C4: a final response that is not 2xx ends the invocation with 502
\* apex_error carrying that response's status and body, never with an access
\* decision; two 401 in a row end with status 401.
C4_DownstreamError ==
    \A p \in Procs :
      IsDone(p) /\ h[p].final.status # 0 /\ ~Ok(h[p].final.status) =>
        /\ inv[p].result.code = 502
        /\ inv[p].result.json = [error |-> "apex_error",
                                 status |-> h[p].final.status,
                                 detail |-> Received(h[p].final)]
        /\ h[p].gets = 2 => h[p].st1 = 401

C4_Witness ==
    \E p \in Procs :
      /\ IsDone(p)
      /\ h[p].gets = 2
      /\ h[p].st1 = 401
      /\ h[p].final.status = 401
      /\ h[p].final.readable
      /\ inv[p].result.code = 502
      /\ inv[p].result.json.status = 401

\* The frame is inside fetchSfToken.
InFetch(p) == inv[p].pc \in {"tokenPost", "backoff", "writeRedis"}

\* The transient signatures of the claims: the two of line 74.
ClaimedTransient(r) ==
    /\ r.status >= 400 /\ r.status <= 499
    /\ r.text \in { "{\"error\":\"invalid_grant\"}", "LOGIN RATE EXCEEDED" }

\* C5: one fetchSfToken issues at most 3 POSTs; a further POST follows only a
\* client-error response with a transient signature; a 2xx response with a
\* JSON object as body on the third attempt ends it with success, and the
\* slot then holds the record built from that third response.
C5_AtMostThreePosts ==
    \A p \in Procs :
      /\ h[p].posts <= 3
      /\ h[p].posts - 1 <= h[p].resps /\ h[p].resps <= h[p].posts
      /\ ( h[p].posts >= 2 /\ h[p].resps = h[p].posts - 1 )
         => ClaimedTransient(h[p].lastResp) /\ h[p].lastResp.readable
      /\ ( inv[p].pc = "writeRedis" /\ h[p].posts = 3 )
         => /\ h[p].resps = 3
            /\ h[p].lastResp.status = 200
            /\ memToken = inv[p].token
            /\ memToken.access_token = JsProp(h[p].lastResp.js, "access_token")
            /\ memToken.instance_url = JsProp(h[p].lastResp.js, "instance_url")
      /\ IsTokenError(p) => ~Ok(h[p].lastResp.status)

\* Success on the third attempt, the token of that response in the slot.
C5_Witness ==
    \E p \in Procs :
      /\ inv[p].pc = "writeRedis"
      /\ h[p].posts = 3
      /\ h[p].backoffs = 2
      /\ HasToken(memToken)
      /\ memToken.access_token = h[p].lastResp.js.props.access_token

\* What the claims call a terminal response: not 2xx, and not a 400 whose
\* body has a transient signature.
ClaimedTerminal(r) ==
    /\ r.status # 0
    /\ ~Ok(r.status)
    /\ ~( r.status = 400
          /\ r.text \in { "{\"error\":\"invalid_grant\"}", "LOGIN RATE EXCEEDED" } )

\* C6: in fetchSfToken a non-2xx response that is no recognized transient
\* (a 400 with another body, or another error status whatever its body)
\* ends the acquisition at once with the token error: no POST follows it.
C6_TerminalNoRetry ==
    \A p \in Procs :
      ( h[p].resps >= 1 /\ ClaimedTerminal(h[p].lastResp) )
      => /\ IsTokenError(p)
         /\ h[p].posts = h[p].resps

\* A 429 with a transient signature in its body ended the acquisition.
C6_Witness ==
    \E p \in Procs :
      /\ IsTokenError(p)
      /\ h[p].lastResp.status = 429
      /\ h[p].lastResp.text = "LOGIN RATE EXCEEDED"
      /\ h[p].lastResp.readable
      /\ h[p].posts = 1

\* C7: when fetchSfToken fails after three transient responses or after a
\* terminal response, the error is the token error and its payload is the
\* body received with the last response of that fetchSfToken.
C7_LastBodyInError ==
    \A p \in Procs :
      /\ IsTokenError(p)
         => /\ h[p].resps >= 1
            /\ h[p].resps = h[p].posts
            /\ inv[p].result.json.detail.txt = Received(h[p].lastResp)
      /\ ( /\ IsDone(p)
           /\ h[p].resps >= 1
           /\ h[p].resps = h[p].posts
           /\ ~Ok(h[p].lastResp.status) )
         => /\ IsTokenError(p)
            /\ inv[p].result.json.detail.name = "Error"
            /\ inv[p].result.json.detail.txt = Received(h[p].lastResp)

\* Three transient responses, the last one with a body.
C7_Witness ==
    \E p \in Procs :
      /\ IsTokenError(p)
      /\ h[p].posts = 3
      /\ h[p].resps = 3
      /\ inv[p].result.json.detail.txt = "LOGIN RATE EXCEEDED"

\* C8: a getSfToken that starts while the slot holds a token issues no POST to
\* the token endpoint; getSfToken calls fetchSfToken only when readRedis gave
\* no token and the slot holds none.
C8_CachedNoTokenCall ==
    \A p \in Procs :
      /\ HasToken(h[p].memAtGet) => inv[p].fcaller # "getSfToken"
      /\ ( InFetch(p) /\ inv[p].fcaller = "getSfToken" )
         => ~HasToken(h[p].rd) /\ ~HasToken(h[p].memAtGet)
      /\ ( AtApexGet(p) /\ HasToken(h[p].memAtGet) /\ h[p].gets = 1 )
         => h[p].allPosts = 0

\* A second invocation answered from the slot, without a POST.
C8_Witness ==
    \E p \in Procs :
      /\ AtApexGet(p)
      /\ h[p].src = "mem"
      /\ HasToken(h[p].memAtGet)
      /\ h[p].allPosts = 0

\* C9 (as claimed): after a successful forced refresh (line 114) and with no
\* other acquisition since, every getSfToken returns the token of that
\* refresh, whatever Redis holds and whether or not the write reached it.
C9_RefreshedTokenReturned ==
    \A p \in Procs :
      ( AtApexGet(p) /\ h[p].src # "fetch" /\ HasToken(lastForced) )
      => inv[p].bearer = lastForced.access_token

\* C10 (as claimed): a getSfToken that starts while the slot holds a token
\* returns that token without reading Redis; Redis is read only when the slot
\* holds no token.
C10_MemoryFirst ==
    \A p \in Procs :
      HasToken(h[p].memAtGet) =>
        /\ ~(inv[p].pc = "readRedis" /\ redisUrl)
        /\ AtApexGet(p) => inv[p].bearer = h[p].memAtGet.access_token

\* C10 (amended): getSfToken reads Redis first whenever REDIS_URL is set,
\* whatever the slot holds, and returns the token read there; the token of the
\* slot is returned only when the read gave no token; without REDIS_URL no
\* read is issued.
C10_RedisFirst ==
    \A p \in Procs :
      /\ ( inv[p].pc = "readRedis" /\ redisUrl ) => h[p].reads >= 1
      /\ ~redisUrl => h[p].reads = 0 /\ h[p].rd = Null
      /\ ( AtApexGet(p) /\ h[p].src = "redis" )
         => /\ redisUrl
            /\ HasToken(h[p].rd)
            /\ inv[p].bearer = h[p].rd.access_token
      /\ ( AtApexGet(p) /\ h[p].src = "mem" )
         => /\ ~HasToken(h[p].rd)
            /\ inv[p].bearer = h[p].memAtGet.access_token

\* The slot held one token and getSfToken returned another, read from Redis.
C10_Witness ==
    \E p \in Procs :
      /\ AtApexGet(p)
      /\ h[p].src = "redis"
      /\ HasToken(h[p].memAtGet)
      /\ h[p].memAtGet.access_token # inv[p].bearer


\* C11: whenever getSfToken is answered from Redis, on its return the slot
\* holds exactly the record readRedis returned and the returned token is that
\* record's token.
C11_ReadThrough ==
    \A p \in Procs :
      ( AtApexGet(p) /\ h[p].src = "redis" )
      => /\ HasToken(h[p].rd)
         /\ memToken = h[p].rd
         /\ inv[p].bearer = memToken.access_token

\* Answered from Redis while the slot held another record or none.
C11_Witness ==
    \E p \in Procs :
      /\ AtApexGet(p)
      /\ h[p].src = "redis"
      /\ h[p].memAtGet # h[p].rd
      /\ memToken = h[p].rd


\* The ways the Redis GET of the latest getSfToken can fail or bring no token.
ReadFailed(p) ==
    \/ h[p].ro \in {"unset", "throws", "notOk", "notJson", "envelope"}
    \/ h[p].ro = "value" /\ ~HasToken(h[p].rd)

\* C12: a Redis that is not configured, cannot be reached, answers non-OK or
\* with a value that is no JSON or carries no token, or whose write fails, is a
\* cache miss and never an error: getSfToken then returns the slot's token if
\* it holds one and acquires otherwise, exactly as without Redis, and a
\* successful acquisition is in the slot and returned whatever the write did.
C12_RedisFailureIsMiss ==
    \A p \in Procs :
      /\ ReadFailed(p)
         => /\ ~HasToken(h[p].rd)
            /\ IsDone(p) => h[p].gets >= 1 \/ h[p].acq >= 1
            /\ AtApexGet(p) =>
                 IF HasToken(h[p].memAtGet)
                 THEN /\ h[p].src = "mem"
                      /\ inv[p].bearer = h[p].memAtGet.access_token
                      /\ memToken = h[p].memAtGet
                 ELSE h[p].src = "fetch"
      /\ ( AtApexGet(p) /\ h[p].src = "fetch" )
         => /\ h[p].wr \in {"unset", "stored", "lost"}
            /\ h[p].lastResp.status = 200
            /\ memToken.access_token = JsProp(h[p].lastResp.js, "access_token")
            /\ memToken.instance_url = JsProp(h[p].lastResp.js, "instance_url")
            /\ inv[p].bearer = memToken.access_token
      /\ ~redisUrl => redis = Null /\ h[p].ro \in {"none", "unset"}

\* Redis holds a record but cannot be reached, and the write is lost: a miss,
\* an acquisition, its token in the slot and returned.
C12_Witness ==
    \E p \in Procs :
      /\ AtApexGet(p)
      /\ redisUrl
      /\ HasToken(redis)
      /\ h[p].ro = "throws"
      /\ h[p].wr = "lost"
      /\ h[p].src = "fetch"
      /\ HasToken(memToken)
      /\ inv[p].bearer = memToken.access_token


\* An invocation is between its first await and its response.
Running(p) == inv[p].pc \notin {"idle", "done"}

\* How far an invocation has come: 1 before the first token is there, 3 while
\* the first GET is out, 4 from the 401 to the end of the forced refresh, 5
\* while the second GET is out, 6 once it has responded (2, the token in hand
\* with no GET issued yet, is no await and so no state).
Stage(p) ==
    CASE inv[p].pc = "idle" -> 0
      [] inv[p].pc = "done" -> 6
      [] inv[p].pc = "apexGet" -> IF h[p].gets <= 1 THEN 3 ELSE 5
      [] inv[p].pc = "sleep" -> 4
      [] OTHER -> IF inv[p].phase = "first" THEN 1 ELSE 4

\* C13: when every network call returns, every invocation that started comes
\* to its response; fetchSfToken never issues more than three POSTs; and an
\* invocation's stage never goes back, the second GET being out at most once.
C13_Terminates ==
    /\ \A p \in Procs : Running(p) ~> IsDone(p)
    /\ [][\A p \in Procs :
            /\ Running(p) => Stage(p)' >= Stage(p)
            /\ ( Stage(p) = 5 /\ Stage(p)' = 5 ) => h'[p].gets = h[p].gets
         ]_vars
    /\ [](\A p \in Procs : h[p].posts <= MaxAttempts /\ h[p].gets <= 2)

\* An invocation that went through every stage, with three POSTs in its
\* forced refresh, and responded.
C13_Witness ==
    \E p \in Procs :
      /\ IsDone(p)
      /\ h[p].gets = 2
      /\ h[p].forced = 1
      /\ h[p].posts = MaxAttempts


\* C14 (as claimed): on the 401 path the second GET comes after the delay and
\* the forced refresh, and carries the token of that refresh, never the token
\* of the first GET, whatever Redis holds.
C14_RetryCarriesRefreshed ==
    \A p \in Procs :
      ( AtApexGet(p) /\ h[p].gets = 2 /\ HasToken(lastForced) )
      => /\ h[p].st1 = 401
         /\ h[p].forced = 1 /\ h[p].forcedOk
         /\ inv[p].bearer = lastForced.access_token
         /\ inv[p].bearer # h[p].bearer1


\* The invocation is over and its last fetchSfToken did not return: its last
\* POST brought no 2xx response with a JSON object.
AcquireFailed(p) ==
    /\ IsDone(p)
    /\ h[p].acq >= 1
    /\ ~( Ok(h[p].lastResp.status) /\ h[p].lastResp.js.ty = "object" )

\* C15: an invocation whose token acquisition failed responds 500 server_error
\* with the acquisition's error, never 200 and never 502 apex_error; no GET
\* was issued if the first getSfToken failed, and no second GET, the first
\* having been answered 401, if the refresh failed.
C15_TokenFailureIsFailed ==
    \A p \in Procs :
      AcquireFailed(p)
      => /\ inv[p].result.code = 500
         /\ inv[p].result.json.error = "server_error"
         /\ inv[p].result.json.detail \in
              {TokenError(t) : t \in TokenErrorTexts \cup {""}}
                \cup {FetchFailed, JsonFailed, NullDeref}
         /\ h[p].final = NoApexResponse
         /\ h[p].forced = 0 => h[p].gets = 0
         /\ h[p].forced >= 1 => h[p].gets = 1 /\ h[p].st1 = 401

\* The forced refresh after a 401 failed with a token_error.
C15_Witness ==
    \E p \in Procs :
      /\ AcquireFailed(p)
      /\ IsTokenError(p)
      /\ h[p].forced = 1
      /\ ~h[p].forcedOk
      /\ h[p].gets = 1
      /\ h[p].st1 = 401


\* Process p's fetchSfToken assigns the slot (line 67) in this step.
AssignsSlot(p) == inv[p].pc = "tokenPost" /\ inv'[p].pc = "writeRedis"

\* Process p's fetchSfToken returns (line 69) in this step.
AcquireCompletes(p) == inv[p].pc = "writeRedis" /\ inv'[p].pc # "writeRedis"

\* Process p's getSfToken gets its answer from readRedis in this step.
ReadsRedis(p) == inv[p].pc = "readRedis" /\ inv'[p].pc # "readRedis"

\* Every change of the slot replaces it by the whole record of one
\* fetchSfToken or of one readRedis.
SlotReplacedWhole ==
    memToken' # memToken
    => \E p \in Procs :
         \/ /\ AssignsSlot(p)
            /\ memToken' = TokenRecord(h'[p].lastResp.js, now)
            /\ memToken' = inv'[p].token
         \/ /\ ReadsRedis(p)
            /\ HasToken(h'[p].rd)
            /\ h'[p].rd = redis
            /\ memToken' = h'[p].rd

\* C16 (as claimed): with invocations interleaved at their awaits the slot is
\* empty or one whole record of a single acquisition or Redis read, and when a
\* successful fetchSfToken returns the slot holds exactly its record.
C16_SlotAfterAcquire ==
    [][ /\ SlotReplacedWhole
        /\ \A p \in Procs : AcquireCompletes(p) => memToken' = inv[p].token
      ]_vars

\* C16 (amended): the slot is empty or one whole record of a single
\* acquisition or Redis read, and holds exactly an acquisition's record when
\* fetchSfToken assigns it (line 67), before the Redis write is awaited; when
\* fetchSfToken returns, the slot holds what was assigned to it last, by this
\* or by another invocation.
C16_SlotWholeRecord ==
    /\ [][ /\ SlotReplacedWhole
           /\ \A p \in Procs : AssignsSlot(p) => memToken' = inv'[p].token
         ]_vars
    /\ [](memToken = Null
            \/ DOMAIN memToken = {"access_token", "instance_url", "fetched_at"})

\* One invocation awaits its Redis write while the slot already holds the
\* record another invocation put there.
C16_Witness ==
    \E p, q \in Procs :
      /\ p # q
      /\ inv[p].pc = "writeRedis"
      /\ HasToken(inv[p].token)
      /\ HasToken(memToken)
      /\ memToken # inv[p].token
      /\ h[q].acq + h[q].reads >= 1


\* C17 (as claimed): the slot never goes from the token of one acquisition to
\* a token the authority issued earlier (tokens are numbered in the order of
\* issue).
C17_NoRevert ==
    [][ ( HasToken(memToken) /\ HasToken(memToken') )
        => memToken'.access_token >= memToken.access_token ]_vars


\* Process p takes a step of fetchSfToken that is not the success of line 59.
FailingFetchStep(p) ==
    /\ inv[p].pc \in {"tokenPost", "backoff"}
    /\ inv'[p] # inv[p]
    /\ inv'[p].pc # "writeRedis"

\* C18: the steps of a fetchSfToken that fails (rejected or unanswered POSTs,
\* backoffs, the throw) change neither the slot nor Redis, so after a failed
\* forced refresh the slot still holds the record whose token the first GET
\* carried, and after a failed acquisition of getSfToken it is as getSfToken
\* found it.
C18_FailedAcquireNoEffect ==
    /\ [][ \A p \in Procs :
             FailingFetchStep(p) => memToken' = memToken /\ redis' = redis ]_vars
    /\ [](\A p \in Procs :
            AcquireFailed(p)
            => IF h[p].forced = 1 /\ ~h[p].forcedOk
               THEN memToken # Null /\ memToken.access_token = h[p].bearer1
               ELSE memToken = h[p].memAtGet)

\* Three transient responses end a forced refresh while the slot holds a
\* token: it is still there.
C18_Witness ==
    \E p \in Procs :
      /\ AcquireFailed(p)
      /\ IsTokenError(p)
      /\ h[p].forced = 1
      /\ h[p].posts = MaxAttempts
      /\ HasToken(memToken)
      /\ memToken.access_token = h[p].bearer1


\* C19 (as claimed): every token getSfToken returns, and so every GET's
\* bearer, is a present token, also after a 2xx token response without
\* access_token; and a record without token is never answered from the slot
\* or from Redis as if cached.
C19_TokenPresent ==
    \A p \in Procs :
      AtApexGet(p)
      => /\ inv[p].bearer # Undefined
         /\ h[p].src = "mem" => HasToken(h[p].memAtGet)
         /\ h[p].src = "redis" => HasToken(h[p].rd)


\* C20 (as claimed): when fetchSfToken ends, by its return or by its throw, it
\* has slept one time less than it has POSTed: there is no backoff after the
\* last attempt.
C20_BackoffOnlyBeforeRetry ==
    \A p \in Procs :
      ( inv[p].pc = "writeRedis" \/ AcquireFailed(p) )
      => h[p].backoffs = h[p].posts - 1


\* C21 (as claimed): one invocation enters fetchSfToken at most twice, once in
\* the first getSfToken and once as the forced refresh, so it issues at most
\* six POSTs; and the getSfToken that follows a forced refresh that returned
\* never enters fetchSfToken.
C21_AtMostTwoAcquires ==
    \A p \in Procs :
      /\ h[p].acq <= 2
      /\ h[p].allPosts <= 2 * MaxAttempts
      /\ ( h[p].forcedOk /\ InFetch(p) ) => inv[p].fcaller # "getSfToken"

====
